---- MODULE Spec2Model ----
(***************************************************************************)
(* A model of ynab-sync: the N26 bank session client (token lifecycle),    *)
(* the N26 -> YNAB sync run (main of n26.py), the transaction normalizer   *)
(* (convert_n26_transaction) and the DKB / ING delimited readers.          *)
(*                                                                         *)
(* Python dicts are modelled as functions whose DOMAIN is the set of keys  *)
(* present, so that `key in d` is `key \in DOMAIN d`.                      *)
(***************************************************************************)
EXTENDS Integers, Sequences, FiniteSets, TLC

VARIABLES
    \* ---- N26Api (bank session client)
    token_data,     \* N26Api.token_data
    now,            \* time.time()
    lastAccess,     \* record of the most recent evaluation of N26Api.token
    \* ---- main() of n26.py (the sync run)
    pc,             \* position of main()
    outcome,        \* how main() ended, "running" while it has not
    calls,          \* number of times each external call was issued in this run
    output,         \* the status lines main() has printed
    ynab_budget_id, \* --ynab-budget-id
    ynab_account_id,\* --ynab-account-id
    ynab_budgets,   \* ids of the budgets the service listed
    ynab_accounts,  \* ids of the accounts the service listed
    ynab_account,   \* the account selected at n26.py:454
    ynab_transations_import_ids, \* import ids of the existing transactions
    n26_response,   \* the bank's transaction list as received
    n26_transactions, \* the same, sorted
    new_transactions, \* the candidates computed at n26.py:498
    submitted,      \* the batches handed to create_transactions
    reported,       \* the count printed at n26.py:530
    answer,         \* what the user answered at the prompt, None before
    status_of,      \* the HTTP status each external call got, 0 before
    ynab_created,   \* service side: import ids created in this run
    ynab_store,     \* service side: import ids the budget account holds
    imported,       \* service side: import ids created by earlier runs
    run,            \* number of the current run
    \* ---- convert_n26_transaction in isolation
    categories_,    \* the --categories file: bank category name -> budget name
    ynab_categories,\* budget category name -> budget category id
    n26_categories, \* bank category id -> bank category name
    transaction,    \* the bank transaction handed to the normalizer
    converted,      \* its results (none before the call)
    \* ---- the delimited readers
    reader,         \* "dkb" or "ing"
    rows,           \* the lines of the export file
    read_result,    \* what read_transactions returned or raised
    \* ---- the request url
    url,            \* the url handed to create_request_url
    params,         \* its params: None or a dict, in insertion order
    request_url     \* what create_request_url returned (none before the call)

tokenVars == <<token_data, now, lastAccess>>
syncVars == <<pc, outcome, calls, output, ynab_budget_id, ynab_account_id,
              ynab_budgets, ynab_accounts, ynab_account,
              ynab_transations_import_ids, n26_response, n26_transactions,
              new_transactions, submitted, reported, answer, status_of,
              ynab_created, ynab_store, imported, run>>
mapVars == <<categories_, ynab_categories, n26_categories>>
normVars == <<transaction, converted>>
csvVars == <<reader, rows, read_result>>
urlVars == <<url, params, request_url>>
vars == <<tokenVars, syncVars, mapVars, normVars, csvVars, urlVars>>

(***************************************************************************)
(* Bounds                                                                  *)
(***************************************************************************)
MaxTime == 3        \* the clock runs 0..MaxTime
MaxLifetime == 2    \* the server declares expires_in in 0..MaxLifetime
MaxFetch == 3       \* the bank lists at most MaxFetch transactions
MaxRuns == 2        \* the sync is run at most MaxRuns times in a row
MaxRows == 2        \* an export file holds at most MaxRows transaction rows
MaxParams == 3      \* a request carries at most MaxParams parameters

(***************************************************************************)
(* Python values                                                           *)
(***************************************************************************)
None == "None"
EmptyDict == [k \in {} |-> None]

\* Python truthiness of a value that is a string or None
Truthy(v) == v # None /\ v # ""

(***************************************************************************)
(* HTTP                                                                    *)
(***************************************************************************)
Statuses == {200, 401, 500}

\* a response whose status is never looked at
raise_for_status_never(status) == FALSE

\* requests.Response.raise_for_status, called at n26.py:40, 211, 225
raise_for_status(status) == status >= 400 /\ status < 600

(***************************************************************************)
(* N26Api: the token lifecycle                                             *)
(***************************************************************************)
AccessTokens == {"", "tokA"}
RefreshTokens == {"r1"}

\* bodies the /oauth/token endpoint may answer with
AuthResponses ==
    { [access_token |-> a, refresh_token |-> r, expires_in |-> e] :
        a \in AccessTokens, r \in RefreshTokens, e \in 0..MaxLifetime }
    \cup { [access_token |-> a, expires_in |-> e] :
        a \in AccessTokens, e \in 0..MaxLifetime }
    \cup { [refresh_token |-> r, expires_in |-> e] :
        r \in RefreshTokens, e \in 0..MaxLifetime }
    \cup { [access_token |-> a] : a \in AccessTokens }

validate_token_strict(td, t) ==
    IF "expiration_time" \notin DOMAIN td THEN FALSE
    ELSE IF t > td.expiration_time THEN FALSE
    ELSE "access_token" \in DOMAIN td /\ Truthy(td.access_token)

validate_token(td, t) ==
    IF "expiration_time" \notin DOMAIN td THEN FALSE
    ELSE IF t >= td.expiration_time THEN FALSE
    ELSE "access_token" \in DOMAIN td /\ Truthy(td.access_token)

\* the grant N26Api.token chooses: refresh_token(...) or request_token(...)
grant_swapped(td) ==
    IF "refresh_token" \in DOMAIN td
    THEN [endpoint |-> "password", credential |-> "username"]
    ELSE [endpoint |-> "refresh_token", credential |-> None]

grant(td) ==
    IF "refresh_token" \in DOMAIN td
    THEN [endpoint |-> "refresh_token", credential |-> td.refresh_token]
    ELSE [endpoint |-> "password", credential |-> "username"]

\* token_data[EXPIRATION_TIME_KEY] = time.time() + token_data["expires_in"]
with_expiration(td, t) ==
    [k \in DOMAIN td \cup {"expiration_time"} |->
        IF k = "expiration_time" THEN t + td.expires_in ELSE td[k]]

\* lines 184-192 of the property: the (re)authentication, when needed
reauthenticate_twice(td, t, status, resp) ==
    IF ~validate_token(td, t)
    THEN IF raise_for_status(status)
         THEN [token_data |-> td, fault |-> "HTTPError", auth |-> <<grant(td), grant(td)>>]
         ELSE IF "expires_in" \notin DOMAIN resp
         THEN [token_data |-> resp, fault |-> "KeyError", auth |-> <<grant(td), grant(td)>>]
         ELSE [token_data |-> with_expiration(resp, t), fault |-> None,
               auth |-> <<grant(td), grant(td)>>]
    ELSE [token_data |-> td, fault |-> None, auth |-> <<>>]

reauthenticate(td, t, status, resp) ==
    IF ~validate_token(td, t)
    THEN IF raise_for_status(status)
         THEN [token_data |-> td, fault |-> "HTTPError", auth |-> <<grant(td)>>]
         ELSE IF "expires_in" \notin DOMAIN resp
         THEN [token_data |-> resp, fault |-> "KeyError", auth |-> <<grant(td)>>]
         ELSE [token_data |-> with_expiration(resp, t), fault |-> None,
               auth |-> <<grant(td)>>]
    ELSE [token_data |-> td, fault |-> None, auth |-> <<>>]

\* N26Api.token: one evaluation of the property at time t, the token endpoint
\* answering with (status, resp) should it be called
token(td, t, status, resp) ==
    LET r == reauthenticate(td, t, status, resp) IN
    IF r.fault # None
    THEN [token_data |-> r.token_data, outcome |-> r.fault, value |-> None,
          auth |-> r.auth]
    ELSE IF ~validate_token(r.token_data, t)
    THEN [token_data |-> r.token_data, outcome |-> "PermissionError",
          value |-> None, auth |-> r.auth]
    ELSE [token_data |-> r.token_data, outcome |-> "ok",
          value |-> r.token_data.access_token, auth |-> r.auth]

NoAccess == [kind |-> "none"]

\* what lastAccess remembers of an evaluation of N26Api.token
AccessRecord(td, t, status, resp) ==
    LET r == token(td, t, status, resp) IN
    [kind |-> "access", before |-> td, at |-> t, status |-> status,
     resp |-> resp, after |-> r.token_data, outcome |-> r.outcome,
     value |-> r.value, auth |-> r.auth,
     validBefore |-> validate_token(td, t),
     validAfter |-> validate_token(r.token_data, t)]

(***************************************************************************)
(* The services main() talks to                                            *)
(***************************************************************************)
BudgetIds == {"b1", "last-used"}
AccountIds == {"acc1", "acc2"}

\* bodies of GET /budgets and GET /budgets/<id>/accounts (the ids listed)
BudgetResponses == { {"b1"}, {"b1", "last-used"} }
AccountResponses == { {}, {"acc1"} }

\* what the token endpoint answers during a sync run
SyncAuthResponses ==
    { [access_token |-> "tokA", refresh_token |-> "r1", expires_in |-> MaxLifetime],
      [access_token |-> "", expires_in |-> MaxLifetime] }

\* the transactions the bank holds: id, visibleTS and, for some, a category
\* (amount and the memo fields are left out: nothing below reads them)
BankTxns ==
    { [id |-> "a", visibleTS |-> 5, category |-> "100"],
      [id |-> "c", visibleTS |-> 3],
      [id |-> "d", visibleTS |-> 3, category |-> "999"] }

\* import ids the budget account may hold before the first run
InitialStores == { {}, {"a", "b"} }

RECURSIVE SeqsUpTo(_, _)
SeqsUpTo(S, n) ==
    IF n = 0 THEN { <<>> }
    ELSE LET shorter == SeqsUpTo(S, n - 1) IN
         shorter \cup { Append(q, x) : q \in shorter, x \in S }

\* bodies of GET /api/smrt/transactions
TransactionResponses == SeqsUpTo(BankTxns, MaxFetch)

\* the body of GET /api/smrt/categories: a list of {id, name}
N26CategoryResponses ==
    { << [id |-> "100", name |-> "Groceries"], [id |-> "999", name |-> "Misc"] >> }

\* the body of GET /budgets/<id>/categories: category groups, each a list of
\* {name, id}; Food is listed twice
YnabCategoryResponses ==
    { << << [name |-> "Food", id |-> "cat-0"] >>,
         << [name |-> "Rent", id |-> "cat-2"], [name |-> "Food", id |-> "cat-1"] >> >> }

\* the content of the --categories file
CategoryFiles == { [n \in {"Groceries"} |-> "Food"] }

(***************************************************************************)
(* Helpers of main()                                                       *)
(***************************************************************************)
RECURSIVE Flatten(_)
\* itertools.chain(*lists)
Flatten(ss) == IF ss = <<>> THEN <<>> ELSE Head(ss) \o Flatten(Tail(ss))

\* {name: id_ for name, id_ in ...} (n26.py:460-472): the last pair of a
\* name wins
ids_by_name(pairs) ==
    [k \in { pairs[i].name : i \in DOMAIN pairs } |->
        LET last == CHOOSE i \in DOMAIN pairs :
                        /\ pairs[i].name = k
                        /\ \A j \in DOMAIN pairs : pairs[j].name = k => j <= i
        IN pairs[last].id]

\* {i["id"]: i["name"] for i in ...} (n26.py:482): the last pair of an id wins
names_by_id(pairs) ==
    [k \in { pairs[i].id : i \in DOMAIN pairs } |->
        LET last == CHOOSE i \in DOMAIN pairs :
                        /\ pairs[i].id = k
                        /\ \A j \in DOMAIN pairs : pairs[j].id = k => j <= i
        IN pairs[last].name]

RECURSIVE sorted_ascending(_)
sorted_ascending(s) ==
    IF s = <<>> THEN <<>>
    ELSE LET pre == sorted_ascending(SubSeq(s, 1, Len(s) - 1))
             x == s[Len(s)]
             k == Cardinality({ i \in DOMAIN pre : pre[i].visibleTS <= x.visibleTS })
         IN SubSeq(pre, 1, k) \o <<x>> \o SubSeq(pre, k + 1, Len(pre))

RECURSIVE sorted_reverse(_)
\* sorted(..., reverse=True, key=lambda x: x["visibleTS"]): descending, and
\* stable (equal keys keep the order they arrived in)
sorted_reverse(s) ==
    IF s = <<>> THEN <<>>
    ELSE LET pre == sorted_reverse(SubSeq(s, 1, Len(s) - 1))
             x == s[Len(s)]
             k == Cardinality({ i \in DOMAIN pre : pre[i].visibleTS >= x.visibleTS })
         IN SubSeq(pre, 1, k) \o <<x>> \o SubSeq(pre, k + 1, Len(pre))

(***************************************************************************)
(* The normalizer                                                          *)
(***************************************************************************)
DayLength == 2   \* visibleTS units per calendar day

\* datetime.fromtimestamp(visibleTS / 1000).strftime("%Y-%m-%d")
DateOf(ts) == ts \div DayLength

\* the chained lookup of n26.py:376-384
resolve_category_unchecked(categories, ynab_cats, n26_cats, t) ==
    IF /\ "category" \in DOMAIN t
       /\ t.category \in DOMAIN n26_cats
       /\ n26_cats[t.category] \in DOMAIN categories
    THEN IF categories[n26_cats[t.category]] \in DOMAIN ynab_cats
         THEN ynab_cats[categories[n26_cats[t.category]]]
         ELSE categories[n26_cats[t.category]]
    ELSE None

resolve_category(categories, ynab_cats, n26_cats, t) ==
    IF /\ "category" \in DOMAIN t
       /\ t.category \in DOMAIN n26_cats
       /\ n26_cats[t.category] \in DOMAIN categories
       /\ categories[n26_cats[t.category]] \in DOMAIN ynab_cats
    THEN ynab_cats[categories[n26_cats[t.category]]]
    ELSE None

convert_n26_transaction_no_id(account_id, categories, ynab_cats, n26_cats, t) ==
    LET category == resolve_category(categories, ynab_cats, n26_cats, t) IN
    [account_id |-> account_id,
     date |-> DateOf(t.visibleTS),
     payee_id |-> None,
     payee_name |-> None,
     category_id |-> category,
     cleared |-> "cleared",
     approved |-> category # None,
     flag_color |-> None,
     import_id |-> None]

\* convert_n26_transaction (the payee list is not read by the code; amount
\* and memo are left out)
convert_n26_transaction(account_id, categories, ynab_cats, n26_cats, t) ==
    LET category == resolve_category(categories, ynab_cats, n26_cats, t) IN
    [account_id |-> account_id,
     date |-> DateOf(t.visibleTS),
     payee_id |-> None,
     payee_name |-> None,
     category_id |-> category,
     cleared |-> "cleared",
     approved |-> category # None,
     flag_color |-> None,
     import_id |-> t.id]

\* the filter of n26.py:508 inverted
is_new_inverted(t, import_ids) == t.id \in import_ids

\* n26.py:508: t["id"] not in ynab_transations_import_ids
is_new(t, import_ids) == t.id \notin import_ids

\* n26.py:498-509
compute_new_transactions(account_id, categories, ynab_cats, n26_cats, txns, import_ids) ==
    LET keep(t) == is_new(t, import_ids)
        kept == SelectSeq(txns, keep)
    IN [i \in DOMAIN kept |->
          convert_n26_transaction(account_id, categories, ynab_cats, n26_cats, kept[i])]

\* YNABApi.create_transactions, n26.py:346-350: the fields that are None are
\* dropped from each transaction
OptionalFields == {"payee_id", "payee_name", "category_id", "flag_color", "import_id"}

strip_none(t) ==
    [k \in { f \in DOMAIN t : ~(f \in OptionalFields /\ t[f] = None) } |-> t[k]]

(***************************************************************************)
(* main() of n26.py: one action per external interaction, each with the    *)
(* local statements that follow it up to the next one                      *)
(***************************************************************************)
Calls == {"n26.get_info", "n26.get_account", "ynab.get_budgets",
          "ynab.get_accounts", "ynab.get_payees", "ynab.get_categories",
          "ynab.get_account_transations", "n26.get_available_categories",
          "n26.get_transactions", "ynab.create_transactions"}

NotReported == -1

\* the lines main() prints (n26.py:435, 447, 514, 523, 530)
BudgetError == "ERROR: is not correct YNAB budget id."
AccountError == "ERROR: is not correct YNAB account id."
Summary == "You are about create"
NothingCreated == "No transactions were created."
Created == "transactions were created successfully!"

\* an exception leaves main()
Abort(fault) == pc' = "done" /\ outcome' = fault

Issue(c, status) ==
    /\ calls' = [calls EXCEPT ![c] = @ + 1]
    /\ status_of' = [status_of EXCEPT ![c] = status]

runVars == <<ynab_budget_id, ynab_account_id, ynab_store, imported, run, categories_>>

\* Api.do_request on the N26Api: the Authorization header reads self.token
\* (n26.py:28), then the request is sent and raise_for_status is applied.
\* Continue is what main() does with the decoded body, Raised what holds of
\* main()'s variables when an exception leaves it instead.
N26Request(c, authStatus, authResp, status, Continue, Raised) ==
    LET a == AccessRecord(token_data, now, authStatus, authResp) IN
    \* the token endpoint's answer matters only when it is called
    /\ validate_token(token_data, now) =>
           authStatus = 200 /\ authResp = CHOOSE r \in SyncAuthResponses : TRUE
    /\ token_data' = a.after
    /\ lastAccess' = a
    /\ now' = now
    /\ IF a.outcome # "ok"
       THEN Abort(a.outcome) /\ UNCHANGED <<calls, status_of>> /\ Raised
       ELSE /\ Issue(c, status)
            /\ IF raise_for_status(status)
               THEN Abort("HTTPError") /\ Raised
               ELSE Continue

\* Api.do_request on the YNABApi: self.token is the plain attribute
YnabRequest(c, status, Continue, Raised) ==
    /\ Issue(c, status)
    /\ IF raise_for_status(status)
       THEN Abort("HTTPError") /\ Raised
       ELSE Continue

Goto(p) == pc' = p /\ outcome' = outcome

\* n26.py:428
get_info ==
    /\ pc = "get_info"
    /\ \E authStatus \in Statuses, authResp \in SyncAuthResponses, status \in Statuses :
         N26Request("n26.get_info", authStatus, authResp, status,
                    Goto("get_account"), TRUE)
    /\ UNCHANGED <<output, ynab_budgets, ynab_accounts, ynab_account,
                   ynab_transations_import_ids, n26_response, n26_transactions,
                   new_transactions, submitted, reported, answer, ynab_created,
                   ynab_categories,
                   n26_categories, runVars, normVars, csvVars, urlVars>>

\* n26.py:429
get_account ==
    /\ pc = "get_account"
    /\ \E authStatus \in Statuses, authResp \in SyncAuthResponses, status \in Statuses :
         N26Request("n26.get_account", authStatus, authResp, status,
                    Goto("get_budgets"), TRUE)
    /\ UNCHANGED <<output, ynab_budgets, ynab_accounts, ynab_account,
                   ynab_transations_import_ids, n26_response, n26_transactions,
                   new_transactions, submitted, reported, answer, ynab_created,
                   ynab_categories,
                   n26_categories, runVars, normVars, csvVars, urlVars>>

\* n26.py:433-441
get_budgets ==
    /\ pc = "get_budgets"
    /\ \E status \in Statuses, budgets \in BudgetResponses :
         YnabRequest("ynab.get_budgets", status,
            /\ ynab_budgets' = budgets
            /\ output' = IF ynab_budget_id \notin budgets
                         THEN Append(output, BudgetError)
                         ELSE output
            /\ Goto("get_accounts"),
            UNCHANGED <<ynab_budgets, output>>)
    /\ UNCHANGED <<tokenVars, ynab_accounts, ynab_account,
                   ynab_transations_import_ids, n26_response, n26_transactions,
                   new_transactions, submitted, reported, answer, ynab_created,
                   ynab_categories,
                   n26_categories, runVars, normVars, csvVars, urlVars>>

\* the list of n26.py:454 with every account in it
select_account_any(accounts, account_id) == accounts \cup {account_id}

\* n26.py:454: [i for i in ynab_accounts if i["id"] == ynab_account_id]
select_account(accounts, account_id) == { i \in accounts : i = account_id }

\* n26.py:443-454
get_accounts ==
    /\ pc = "get_accounts"
    /\ \E status \in Statuses, accounts \in AccountResponses :
         YnabRequest("ynab.get_accounts", status,
            /\ ynab_accounts' = accounts
            /\ output' = IF ynab_account_id \notin accounts
                         THEN Append(output, AccountError)
                         ELSE output
            \* [i for i in ynab_accounts if i["id"] == ynab_account_id][0]
            /\ IF select_account(accounts, ynab_account_id) = {}
               THEN Abort("IndexError") /\ ynab_account' = ynab_account
               ELSE Goto("get_payees") /\ ynab_account' = ynab_account_id,
            UNCHANGED <<ynab_accounts, output, ynab_account>>)
    /\ UNCHANGED <<tokenVars, ynab_budgets,
                   ynab_transations_import_ids, n26_response, n26_transactions,
                   new_transactions, submitted, reported, answer, ynab_created,
                   ynab_categories,
                   n26_categories, runVars, normVars, csvVars, urlVars>>

\* n26.py:457 (the payees are fetched and never read)
get_payees ==
    /\ pc = "get_payees"
    /\ \E status \in Statuses :
         YnabRequest("ynab.get_payees", status, Goto("get_categories"), TRUE)
    /\ UNCHANGED <<tokenVars, output, ynab_budgets, ynab_accounts, ynab_account,
                   ynab_transations_import_ids, n26_response, n26_transactions,
                   new_transactions, submitted, reported, answer, ynab_created,
                   ynab_categories,
                   n26_categories, runVars, normVars, csvVars, urlVars>>

\* n26.py:460-472
get_categories ==
    /\ pc = "get_categories"
    /\ \E status \in Statuses, groups \in YnabCategoryResponses :
         YnabRequest("ynab.get_categories", status,
            /\ ynab_categories' = ids_by_name(Flatten(groups))
            /\ Goto("get_account_transations"),
            UNCHANGED ynab_categories)
    /\ UNCHANGED <<tokenVars, output, ynab_budgets, ynab_accounts, ynab_account,
                   ynab_transations_import_ids, n26_response, n26_transactions,
                   new_transactions, submitted, reported, answer, ynab_created,
                   n26_categories, runVars, normVars, csvVars, urlVars>>

\* what GET .../accounts/<id>/transactions may list: the import ids of the
\* transactions the account holds since since_date (all of them, or those
\* made by earlier runs left out), with or without a hand-entered one (whose
\* import_id is null)
ExistingResponses ==
    { listed \cup manual :
        listed \in { ynab_store, ynab_store \ imported },
        manual \in { {}, {None} } }

\* n26.py:475-479 (and 497: the import ids are only tested for membership,
\* so the list is kept as the set of its elements)
get_account_transations ==
    /\ pc = "get_account_transations"
    /\ \E status \in Statuses, existing \in ExistingResponses :
         YnabRequest("ynab.get_account_transations", status,
            /\ ynab_transations_import_ids' = existing
            /\ Goto("get_available_categories"),
            UNCHANGED ynab_transations_import_ids)
    /\ UNCHANGED <<tokenVars, output, ynab_budgets, ynab_accounts, ynab_account,
                   n26_response, n26_transactions,
                   new_transactions, submitted, reported, answer, ynab_created,
                   ynab_categories,
                   n26_categories, runVars, normVars, csvVars, urlVars>>

\* n26.py:482
get_available_categories ==
    /\ pc = "get_available_categories"
    /\ \E authStatus \in Statuses, authResp \in SyncAuthResponses, status \in Statuses,
          cats \in N26CategoryResponses :
         N26Request("n26.get_available_categories", authStatus, authResp, status,
            /\ n26_categories' = names_by_id(cats)
            /\ Goto("get_transactions"),
            UNCHANGED n26_categories)
    /\ UNCHANGED <<output, ynab_budgets, ynab_accounts, ynab_account,
                   ynab_transations_import_ids, n26_response, n26_transactions,
                   new_transactions, submitted, reported, answer, ynab_created,
                   ynab_categories,
                   runVars, normVars, csvVars, urlVars>>

\* n26.py:485-520: fetch, sort, compute the candidates, print the summary
get_transactions ==
    /\ pc = "get_transactions"
    /\ \E authStatus \in Statuses, authResp \in SyncAuthResponses, status \in Statuses,
          body \in TransactionResponses :
         N26Request("n26.get_transactions", authStatus, authResp, status,
            /\ n26_response' = body
            /\ n26_transactions' = sorted_reverse(body)
            /\ new_transactions' =
                 compute_new_transactions(ynab_account_id, categories_,
                     ynab_categories, n26_categories, sorted_reverse(body),
                     ynab_transations_import_ids)
            /\ output' = Append(output, Summary)
            /\ Goto("confirm"),
            UNCHANGED <<n26_response, n26_transactions, new_transactions, output>>)
    /\ UNCHANGED <<ynab_budgets, ynab_accounts, ynab_account,
                   ynab_transations_import_ids, submitted, reported, answer,
                   ynab_created, ynab_categories, n26_categories, runVars,
                   normVars, csvVars, urlVars>>

\* n26.py:521-524: click.confirm
confirm ==
    /\ pc = "confirm"
    /\ \E yes \in BOOLEAN :
         /\ answer' = IF yes THEN "y" ELSE "n"
         /\ IF ~yes
            THEN /\ output' = Append(output, NothingCreated)
                 /\ pc' = "done"
                 /\ outcome' = "declined"
            ELSE /\ output' = output
                 /\ Goto("create_transactions")
    /\ UNCHANGED <<tokenVars, calls, status_of, ynab_budgets, ynab_accounts,
                   ynab_account,
                   ynab_transations_import_ids, n26_response, n26_transactions,
                   new_transactions, submitted, reported, ynab_created,
                   ynab_categories,
                   n26_categories, runVars, normVars, csvVars, urlVars>>

\* the count of n26.py:530 taken from the batch that was sent
submitted_count(transaction_ids, transactions) == Len(transactions)

\* n26.py:528-530: len(created_transaction_ids)
created_count(transaction_ids, transactions) == Cardinality(transaction_ids)

\* the import ids of the first k transactions of a batch
IdsOfPrefix(batch, k) == { batch[i].import_id : i \in 1..k }

\* n26.py:527-532. The service takes the first k transactions of the batch,
\* stores those whose import id it does not hold yet and lists their ids.
create_transactions ==
    /\ pc = "create_transactions"
    /\ \E status \in Statuses, k \in 0..Len(new_transactions) :
         LET batch == [i \in DOMAIN new_transactions |-> strip_none(new_transactions[i])]
             created == IdsOfPrefix(batch, k) \ ynab_store
         IN /\ submitted' = Append(submitted, batch)
            /\ YnabRequest("ynab.create_transactions", status,
                 /\ ynab_store' = ynab_store \cup created
                 /\ ynab_created' = created
                 /\ reported' = created_count(created, batch)
                 /\ output' = Append(output, Created)
                 /\ pc' = "done"
                 /\ outcome' = "created",
                 UNCHANGED <<ynab_store, ynab_created, reported, output>>)
    /\ UNCHANGED <<tokenVars, ynab_budgets, ynab_accounts, ynab_account,
                   ynab_transations_import_ids, n26_response, n26_transactions,
                   new_transactions, answer, ynab_categories, n26_categories,
                   ynab_budget_id, ynab_account_id, run, categories_, imported,
                   normVars, csvVars, urlVars>>

InitCalls == [c \in Calls |-> 0]

\* the command is run again: a new process against the same services
run_again ==
    /\ pc = "done"
    /\ run < MaxRuns
    /\ run' = run + 1
    /\ pc' = "get_info"
    /\ outcome' = "running"
    /\ calls' = InitCalls
    /\ output' = <<>>
    /\ token_data' = EmptyDict
    /\ lastAccess' = NoAccess
    /\ ynab_budgets' = {}
    /\ ynab_accounts' = {}
    /\ ynab_account' = None
    /\ ynab_transations_import_ids' = {}
    /\ n26_response' = <<>>
    /\ n26_transactions' = <<>>
    /\ new_transactions' = <<>>
    /\ submitted' = <<>>
    /\ reported' = NotReported
    /\ answer' = None
    /\ status_of' = InitCalls
    /\ ynab_created' = {}
    /\ imported' = imported \cup ynab_created
    /\ ynab_categories' = EmptyDict
    /\ n26_categories' = EmptyDict
    /\ UNCHANGED <<now, ynab_budget_id, ynab_account_id, ynab_store,
                   categories_, normVars, csvVars, urlVars>>

NoTransaction == [id |-> None]
NoRows == <<>>
Unread == [status |-> "unread", transactions |-> <<>>]

NormIdle == transaction = NoTransaction /\ converted = <<>>
CsvIdle == reader = None /\ rows = NoRows /\ read_result = Unread
NoParams == [is_none |-> TRUE, items |-> <<>>]
UrlIdle == url = <<>> /\ params = NoParams /\ request_url = <<>>
TokenIdle == token_data = EmptyDict /\ now = 0 /\ lastAccess = NoAccess
MapsIdle ==
    categories_ = EmptyDict /\ ynab_categories = EmptyDict /\ n26_categories = EmptyDict

SyncIdle ==
    /\ pc = "idle"
    /\ outcome = "running"
    /\ calls = InitCalls
    /\ output = <<>>
    /\ ynab_budget_id = None
    /\ ynab_account_id = None
    /\ ynab_budgets = {}
    /\ ynab_accounts = {}
    /\ ynab_account = None
    /\ ynab_transations_import_ids = {}
    /\ n26_response = <<>>
    /\ n26_transactions = <<>>
    /\ new_transactions = <<>>
    /\ submitted = <<>>
    /\ reported = NotReported
    /\ answer = None
    /\ status_of = InitCalls
    /\ ynab_created = {}
    /\ ynab_store = {}
    /\ imported = {}
    /\ run = 1

Init ==
    /\ TokenIdle
    /\ pc = "get_info"
    /\ outcome = "running"
    /\ calls = InitCalls
    /\ output = <<>>
    /\ ynab_budget_id \in BudgetIds
    /\ ynab_account_id \in AccountIds
    /\ ynab_budgets = {}
    /\ ynab_accounts = {}
    /\ ynab_account = None
    /\ ynab_transations_import_ids = {}
    /\ n26_response = <<>>
    /\ n26_transactions = <<>>
    /\ new_transactions = <<>>
    /\ submitted = <<>>
    /\ reported = NotReported
    /\ answer = None
    /\ status_of = InitCalls
    /\ ynab_created = {}
    /\ ynab_store \in InitialStores
    /\ imported = {}
    /\ run = 1
    /\ categories_ \in CategoryFiles
    /\ ynab_categories = EmptyDict
    /\ n26_categories = EmptyDict
    /\ NormIdle
    /\ CsvIdle
    /\ UrlIdle

Next ==
    \/ get_info
    \/ get_account
    \/ get_budgets
    \/ get_accounts
    \/ get_payees
    \/ get_categories
    \/ get_account_transations
    \/ get_available_categories
    \/ get_transactions
    \/ confirm
    \/ create_transactions
    \/ run_again

Spec == Init /\ [][Next]_vars

(***************************************************************************)
(* The bank session client on its own: the token property is read at any   *)
(* time, and time passes                                                   *)
(***************************************************************************)
\* an evaluation of N26Api.token (n26.py:182-197)
read_token ==
    /\ \E status \in Statuses, resp \in AuthResponses :
         /\ validate_token(token_data, now) =>
                status = 200 /\ resp = CHOOSE r \in AuthResponses : TRUE
         /\ lastAccess' = AccessRecord(token_data, now, status, resp)
         /\ token_data' = token(token_data, now, status, resp).token_data
    /\ UNCHANGED <<now, syncVars, mapVars, normVars, csvVars, urlVars>>

\* time.time() advances
tick ==
    /\ now < MaxTime
    /\ now' = now + 1
    /\ UNCHANGED <<token_data, lastAccess, syncVars, mapVars, normVars, csvVars, urlVars>>

InitToken == TokenIdle /\ SyncIdle /\ MapsIdle /\ NormIdle /\ CsvIdle /\ UrlIdle

NextToken == read_token \/ tick

SpecToken == InitToken /\ [][NextToken]_vars

(***************************************************************************)
(* The normalizer on its own                                               *)
(***************************************************************************)
PartialMaps(K, V) == UNION { [D -> V] : D \in SUBSET K }

BankCategoryIds == {"100", "999"}
BankCategoryNames == {"Groceries", "Misc"}
BudgetNames == {"Food", "Fun"}
BudgetCategoryIds == {"cat-1", "cat-2"}

\* bank transactions with and without a category, known to the bank or not
NormTransactions ==
    { [id |-> "a", visibleTS |-> 5] }
    \cup { [id |-> "a", visibleTS |-> 5, category |-> c] :
             c \in BankCategoryIds \cup {"777"} }

\* a call of convert_n26_transaction (n26.py:358-401)
normalize ==
    /\ converted = <<>>
    /\ converted' = << convert_n26_transaction("acc1", categories_, ynab_categories,
                                               n26_categories, transaction) >>
    /\ UNCHANGED <<tokenVars, syncVars, mapVars, transaction, csvVars, urlVars>>

InitNorm ==
    /\ TokenIdle /\ SyncIdle /\ CsvIdle /\ UrlIdle
    /\ n26_categories \in PartialMaps(BankCategoryIds, BankCategoryNames)
    /\ categories_ \in PartialMaps(BankCategoryNames, BudgetNames)
    /\ ynab_categories \in PartialMaps(BudgetNames, BudgetCategoryIds)
    /\ transaction \in NormTransactions
    /\ converted = <<>>

NextNorm == normalize

SpecNorm == InitNorm /\ [][NextNorm]_vars

(***************************************************************************)
(* The delimited readers (dkb.py, ingdiba.py). Text is a sequence of       *)
(* characters.                                                             *)
(***************************************************************************)
Digits == {"0", "1", "2", "3", "4", "5", "6"}

DigitValue(c) ==
    CASE c = "0" -> 0 [] c = "1" -> 1 [] c = "2" -> 2 [] c = "3" -> 3
      [] c = "4" -> 4 [] c = "5" -> 5 [] c = "6" -> 6

RECURSIVE lstrip(_)
lstrip(t) == IF t # <<>> /\ Head(t) = " " THEN lstrip(Tail(t)) ELSE t

RECURSIVE rstrip(_)
rstrip(t) ==
    IF t # <<>> /\ t[Len(t)] = " " THEN rstrip(SubSeq(t, 1, Len(t) - 1)) ELSE t

\* str.strip()
strip(t) == rstrip(lstrip(t))

RECURSIVE replace(_, _, _)
\* str.replace(old, new) for a one-character old; new is a text
replace(t, old, new) ==
    IF t = <<>> THEN <<>>
    ELSE (IF Head(t) = old THEN new ELSE <<Head(t)>>) \o replace(Tail(t), old, new)

RECURSIVE Coefficient(_)
Coefficient(ds) ==
    IF ds = <<>> THEN 0
    ELSE 10 * Coefficient(SubSeq(ds, 1, Len(ds) - 1)) + DigitValue(ds[Len(ds)])

IsDigit(c) == c \in Digits

InvalidOperation == [invalid |-> TRUE]

\* decimal.Decimal(text): white space around the number is dropped, then an
\* optional sign, digits with at most one decimal point, and at least one
\* digit; anything else raises InvalidOperation. The value is
\* (-1)^neg * coeff / 10^scale.
Decimal(text) ==
    LET t == strip(text)
        neg == t # <<>> /\ Head(t) = "-"
        body == IF neg THEN Tail(t) ELSE t
        points == { i \in DOMAIN body : body[i] = "." }
        digits == SelectSeq(body, IsDigit)
    IN IF /\ \A i \in DOMAIN body : body[i] \in Digits \cup {"."}
          /\ Cardinality(points) <= 1
          /\ digits # <<>>
       THEN [invalid |-> FALSE, neg |-> neg, coeff |-> Coefficient(digits),
             scale |-> IF points = {} THEN 0
                       ELSE Len(body) - (CHOOSE i \in points : TRUE)]
       ELSE InvalidOperation

\* amount < 0
IsNegative(d) == d.neg /\ d.coeff > 0

\* -amount
Negated(d) == [d EXCEPT !.neg = ~d.neg]

\* record[...].replace(".", "").replace(",", ".")
amount_text(field) == replace(replace(field, ".", <<>>), ",", <<".">>)

BookingDate == <<"3", "1", ".", "1", "2", ".", "2", "0">>

\* the text of an amount column
AmountTexts ==
    { <<>>, <<" ">>, <<"0">>, <<"-", "1">>, <<"1", ",", "5">>, <<"-", "1", ",", "5">>,
      <<"1", ".", "2", "3", "4", ",", "5", "6">>,
      <<"-", "1", ".", "2", "3", "4", ",", "5", "6">>,
      <<"1", ",", ",", "5">>, <<" ", "2", " ">> }

\* the lines of an export: free text, the header line (quoted "Buchungstag...
\* or plain Buchung...), or a row of the table
Preamble == [kind |-> "preamble"]
QuotedHeader == [kind |-> "quoted header"]
PlainHeader == [kind |-> "plain header"]
RowLines ==
    { [kind |-> "row", date |-> BookingDate, payee |-> "payee", memo |-> "memo",
       amount |-> a] : a \in AmountTexts }

Exports ==
    { pre \o hdr \o body :
        pre \in { <<>>, <<Preamble>> },
        hdr \in { <<>>, <<QuotedHeader>>, <<PlainHeader>> },
        body \in SeqsUpTo(RowLines, MaxRows) }

\* dkb.py:20: line.startswith('"Buchungstag')
dkb_is_header(line) == line.kind = "quoted header"

\* ingdiba.py:23: line.startswith('"Buchung') or line.startswith("Buchung")
ing_is_header(line) == line.kind \in {"quoted header", "plain header"}

\* the two copy loops and csv.DictReader: the records are the lines after
\* the first of the header lines (at the indexes headers), none when there
\* is no header line
records_after(lines, headers) ==
    IF headers = {} THEN <<>>
    ELSE LET h == CHOOSE i \in headers : \A j \in headers : i <= j
         IN SubSeq(lines, h + 1, Len(lines))

\* dkb.py:17-29
dkb_records(lines) ==
    records_after(lines, { i \in DOMAIN lines : dkb_is_header(lines[i]) })

\* ingdiba.py:20-33
ing_records(lines) ==
    records_after(lines, { i \in DOMAIN lines : ing_is_header(lines[i]) })

RECURSIVE dkb_convert(_, _)
\* dkb.py:28-45: transaction is a dict, and `transaction.Outflow = ...` /
\* `transaction.Inflow = ...` set an attribute on it, which a dict refuses
dkb_convert(records, transactions) ==
    IF records = <<>> THEN [status |-> "ok", transactions |-> transactions]
    ELSE LET record == Head(records) IN
         IF strip(record.amount) = <<>>
         THEN dkb_convert(Tail(records), transactions)
         ELSE LET amount == Decimal(amount_text(record.amount)) IN
              IF amount.invalid
              THEN [status |-> "InvalidOperation", transactions |-> <<>>]
              ELSE [status |-> "AttributeError", transactions |-> <<>>]

RECURSIVE ing_convert(_, _)
\* ingdiba.py:32-45
ing_convert(records, transactions) ==
    IF records = <<>> THEN [status |-> "ok", transactions |-> transactions]
    ELSE LET record == Head(records)
             amount == Decimal(amount_text(record.amount))
             base == [Date |-> replace(record.date, ".", <<"/">>),
                      Payee |-> record.payee,
                      Memo |-> record.memo]
         IN IF amount.invalid
            THEN [status |-> "InvalidOperation", transactions |-> <<>>]
            ELSE ing_convert(Tail(records),
                    Append(transactions,
                        IF IsNegative(amount)
                        THEN [k \in DOMAIN base \cup {"Outflow"} |->
                                IF k = "Outflow" THEN Negated(amount) ELSE base[k]]
                        ELSE [k \in DOMAIN base \cup {"Inflow"} |->
                                IF k = "Inflow" THEN amount ELSE base[k]]))

\* dkb.read_transactions
dkb_read_transactions(lines) ==
    dkb_convert(dkb_records(lines), <<>>)

\* ingdiba.read_transactions
ing_read_transactions(lines) ==
    ing_convert(ing_records(lines), <<>>)

read_dkb ==
    /\ reader = "dkb"
    /\ read_result = Unread
    /\ read_result' = dkb_read_transactions(rows)
    /\ UNCHANGED <<tokenVars, syncVars, mapVars, normVars, reader, rows, urlVars>>

read_ing ==
    /\ reader = "ing"
    /\ read_result = Unread
    /\ read_result' = ing_read_transactions(rows)
    /\ UNCHANGED <<tokenVars, syncVars, mapVars, normVars, reader, rows, urlVars>>

InitCsv ==
    /\ TokenIdle /\ SyncIdle /\ MapsIdle /\ NormIdle /\ UrlIdle
    /\ reader \in {"dkb", "ing"}
    /\ rows \in Exports
    /\ read_result = Unread

NextCsv == read_dkb \/ read_ing

SpecCsv == InitCsv /\ [][NextCsv]_vars

(***************************************************************************)
(* The request url (Api.create_request_url, n26.py:43-59).  Text is a      *)
(* sequence of characters; a dict is the sequence of its items in          *)
(* insertion order, with distinct keys.                                    *)
(***************************************************************************)
\* the characters of the parameter names, in code point order
Ascii == <<"I", "a", "d", "f", "i", "l", "m", "o", "r", "s", "t">>

ord(c) == CHOOSE i \in DOMAIN Ascii : Ascii[i] = c

\* a < b on str: the first differing code point decides, a proper prefix
\* is smaller
RECURSIVE str_lt(_, _)
str_lt(a, b) ==
    IF b = <<>> THEN FALSE
    ELSE IF a = <<>> THEN TRUE
    ELSE IF Head(a) # Head(b) THEN ord(Head(a)) < ord(Head(b))
    ELSE str_lt(Tail(a), Tail(b))

\* parameter names that get_transactions passes (n26.py:172-178)
ParamKeys == { <<"f", "r", "o", "m">>, <<"t", "o">>,
               <<"l", "i", "m", "i", "t">>,
               <<"l", "a", "s", "t", "I", "d">> }

\* Python values
PyNone == [type |-> "NoneType", n |-> 0, s |-> <<>>]
PyStr(text) == [type |-> "str", n |-> 0, s |-> text]
PyInt(i) == [type |-> "int", n |-> i, s |-> <<>>]
PyBool(b) == [type |-> "bool", n |-> IF b THEN 1 ELSE 0, s |-> <<>>]

ParamValues == { PyNone, PyStr(<<>>), PyStr(<<"0">>), PyInt(0), PyInt(20),
                 PyBool(FALSE), PyBool(TRUE) }

\* `not v`
not_(v) ==
    CASE v.type = "NoneType" -> TRUE
      [] v.type = "str" -> Len(v.s) = 0
      [] v.type = "int" -> v.n = 0
      [] v.type = "bool" -> v.n = 0

\* str() of a non-negative int
RECURSIVE str_int(_)
str_int(i) ==
    LET digit == <<"0", "1", "2", "3", "4", "5", "6", "7", "8", "9">>[(i % 10) + 1]
    IN IF i < 10 THEN <<digit>> ELSE Append(str_int(i \div 10), digit)

\* f"{v}"
format(v) ==
    CASE v.type = "NoneType" -> <<"N", "o", "n", "e">>
      [] v.type = "str" -> v.s
      [] v.type = "int" -> str_int(v.n)
      [] v.type = "bool" -> IF v.n = 1 THEN <<"T", "r", "u", "e">>
                            ELSE <<"F", "a", "l", "s", "e">>

\* the items in the order they were inserted
insertion_order(items) == items

\* sorted(params.items(), key=lambda entry: entry[0]) (n26.py:46)
RECURSIVE sorted_by_key(_)
sorted_by_key(items) ==
    IF items = <<>> THEN <<>>
    ELSE LET pre == sorted_by_key(SubSeq(items, 1, Len(items) - 1))
             x == items[Len(items)]
             k == Cardinality({ i \in DOMAIN pre : ~str_lt(x.k, pre[i].k) })
         IN SubSeq(pre, 1, k) \o <<x>> \o SubSeq(pre, k + 1, Len(pre))

\* the loop of n26.py:46-57 over the items still to visit
RECURSIVE append_params(_, _, _)
append_params(u, items, first_param) ==
    IF items = <<>> THEN u
    ELSE LET k == Head(items).k
             v == Head(items).v
         IN IF not_(v) THEN append_params(u, Tail(items), first_param)
            ELSE append_params(u \o (IF first_param THEN <<"?">> ELSE <<"&">>)
                                 \o k \o <<"=">> \o format(v),
                               Tail(items), FALSE)

\* Api.create_request_url
create_request_url(u, ps) ==
    IF ~ps.is_none /\ ps.items # <<>>
    THEN append_params(u, sorted_by_key(ps.items), TRUE)
    ELSE u

Urls == { <<"/", "t">> }

\* the dict with the keys ks[i] and the values vs[i], inserted in this order
Dict(ks, vs) ==
    [is_none |-> FALSE, items |-> [ i \in DOMAIN ks |-> [k |-> ks[i], v |-> vs[i]] ]]

HasDistinctKeys(ks) == \A i, j \in DOMAIN ks : ks[i] = ks[j] => i = j

call_create_request_url ==
    /\ url # <<>>
    /\ request_url = <<>>
    /\ request_url' = << create_request_url(url, params) >>
    /\ UNCHANGED <<tokenVars, syncVars, mapVars, normVars, csvVars, url, params>>

InitUrl ==
    /\ TokenIdle /\ SyncIdle /\ MapsIdle /\ NormIdle /\ CsvIdle
    /\ url \in Urls
    /\ \/ params = NoParams
       \/ \E n \in 0..MaxParams :
              \E ks \in [1..n -> ParamKeys], vs \in [1..n -> ParamValues] :
                  HasDistinctKeys(ks) /\ params = Dict(ks, vs)
    /\ request_url = <<>>

NextUrl == call_create_request_url

SpecUrl == InitUrl /\ [][NextUrl]_vars

(***************************************************************************)
(* Properties                                                              *)
(***************************************************************************)
\* the bank transactions of the list that main() keeps (n26.py:508), in order
Kept == LET absent(t) == t.id \notin ynab_transations_import_ids
        IN SelectSeq(n26_transactions, absent)

\* C1: every transaction handed to create_transactions carries the id of
\* the bank transaction it was made from as its import_id, and that id is
\* not among the import ids fetched from the budget account; so a later run
\* whose fetched list holds what the earlier runs created submits none of it.
C1_ImportIdIsSourceId ==
    \A b \in DOMAIN submitted :
        /\ Len(submitted[b]) = Len(Kept)
        /\ \A i \in DOMAIN submitted[b] :
             /\ "import_id" \in DOMAIN submitted[b][i]
             /\ submitted[b][i].import_id = Kept[i].id
             /\ submitted[b][i].import_id \notin ynab_transations_import_ids
             /\ imported \subseteq ynab_transations_import_ids
                   => submitted[b][i].import_id \notin imported

\* a second run over the same bank transactions, the first run's creations
\* listed: a batch is submitted, and the bank had listed an imported one
C1_Witness ==
    /\ run = 2
    /\ imported # {}
    /\ imported \subseteq ynab_transations_import_ids
    /\ \E i \in DOMAIN n26_transactions : n26_transactions[i].id \in imported
    /\ Len(submitted) = 1
    /\ Len(submitted[1]) > 0

Normalized(t) ==
    convert_n26_transaction(ynab_account_id, categories_, ynab_categories,
                            n26_categories, t)

Occurrences(seq, x) == Cardinality({ i \in DOMAIN seq : seq[i] = x })

VisibleTSOf(id) == (CHOOSE t \in BankTxns : t.id = id).visibleTS

TxnA == CHOOSE t \in BankTxns : t.id = "a"
TxnC == CHOOSE t \in BankTxns : t.id = "c"
TxnD == CHOOSE t \in BankTxns : t.id = "d"

\* C2: the candidates are the normalized forms of the fetched transactions
\* whose id is not an existing import id, once per fetched occurrence, in
\* descending visibleTS order; existing {a, b} and fetched [a, c, d] give
\* normalized c, then normalized d.
C2_CandidatesAreTheUnseen ==
    /\ Len(new_transactions) =
         Cardinality({ i \in DOMAIN n26_response :
                          n26_response[i].id \notin ynab_transations_import_ids })
    /\ \A t \in BankTxns :
         Occurrences(new_transactions, Normalized(t)) =
            IF t.id \in ynab_transations_import_ids THEN 0
            ELSE Occurrences(n26_response, t)
    /\ \A i, j \in DOMAIN new_transactions :
         i < j => VisibleTSOf(new_transactions[i].import_id)
                     >= VisibleTSOf(new_transactions[j].import_id)
    /\ (ynab_transations_import_ids = {"a", "b"} /\ n26_response = <<TxnA, TxnC, TxnD>>)
          => new_transactions = <<Normalized(TxnC), Normalized(TxnD)>>

C2_Witness ==
    /\ ynab_transations_import_ids = {"a", "b"}
    /\ n26_response = <<TxnA, TxnC, TxnD>>
    /\ new_transactions = <<Normalized(TxnC), Normalized(TxnD)>>
    /\ pc = "confirm"

\* the TokenState is Valid at time t: an expiry strictly later than t and a
\* non-empty access token
Usable(td, t) ==
    /\ "expiration_time" \in DOMAIN td
    /\ td.expiration_time > t
    /\ "access_token" \in DOMAIN td
    /\ td.access_token # ""
    /\ td.access_token # None

Answered(a) == a.status = 200 /\ "expires_in" \in DOMAIN a.resp

\* C3: a token access made while the held TokenState is not Valid calls the
\* refresh-token endpoint if a refresh token is held and the password-grant
\* endpoint otherwise, replaces the whole TokenState by the response with
\* expiry = now + the declared lifetime, and, the lifetime being positive and
\* the access token non-empty, leaves the state Valid and returns that token.
C3_ReauthenticationWhenNotValid ==
    (lastAccess.kind = "access" /\ ~Usable(lastAccess.before, lastAccess.at)) =>
        /\ Len(lastAccess.auth) >= 1
        /\ lastAccess.auth[1] =
             IF "refresh_token" \in DOMAIN lastAccess.before
             THEN [endpoint |-> "refresh_token",
                   credential |-> lastAccess.before.refresh_token]
             ELSE [endpoint |-> "password", credential |-> "username"]
        /\ Answered(lastAccess) =>
             /\ DOMAIN lastAccess.after = DOMAIN lastAccess.resp \cup {"expiration_time"}
             /\ \A k \in DOMAIN lastAccess.resp : lastAccess.after[k] = lastAccess.resp[k]
             /\ lastAccess.after.expiration_time = lastAccess.at + lastAccess.resp.expires_in
             /\ token_data = lastAccess.after
        /\ ( /\ Answered(lastAccess)
             /\ lastAccess.resp.expires_in > 0
             /\ "access_token" \in DOMAIN lastAccess.resp
             /\ lastAccess.resp.access_token # "" ) =>
             /\ Usable(lastAccess.after, lastAccess.at)
             /\ lastAccess.outcome = "ok"
             /\ lastAccess.value = lastAccess.resp.access_token

\* an expired token is refreshed
C3_Witness ==
    /\ lastAccess.kind = "access"
    /\ "expiration_time" \in DOMAIN lastAccess.before
    /\ lastAccess.before.expiration_time <= lastAccess.at
    /\ "refresh_token" \in DOMAIN lastAccess.before
    /\ lastAccess.auth = << [endpoint |-> "refresh_token", credential |-> "r1"] >>
    /\ lastAccess.outcome = "ok"
    /\ "refresh_token" \notin DOMAIN lastAccess.after

\* C4: a token access makes at most one authentication call, none when the
\* held token is Valid (and then leaves the TokenState as it was); a token
\* still not Valid after the call is a PermissionError; the access ends with
\* an access token or with a fault.
C4_AtMostOneAuthenticationCall ==
    lastAccess.kind = "access" =>
        /\ Len(lastAccess.auth) <= 1
        /\ Usable(lastAccess.before, lastAccess.at) =>
             /\ lastAccess.auth = <<>>
             /\ lastAccess.after = lastAccess.before
             /\ lastAccess.outcome = "ok"
        /\ ( /\ ~Usable(lastAccess.before, lastAccess.at)
             /\ Answered(lastAccess)
             /\ ~Usable(lastAccess.after, lastAccess.at) ) =>
             lastAccess.outcome = "PermissionError"
        /\ lastAccess.outcome \in {"ok", "PermissionError", "HTTPError", "KeyError"}
        /\ lastAccess.outcome = "ok" =>
             /\ lastAccess.value = lastAccess.after.access_token
             /\ lastAccess.value # ""
        /\ lastAccess.outcome # "ok" => lastAccess.value = None

\* the one call answered with an empty access token: a PermissionError
C4_Witness ==
    /\ lastAccess.kind = "access"
    /\ Len(lastAccess.auth) = 1
    /\ Answered(lastAccess)
    /\ lastAccess.resp.expires_in > 0
    /\ lastAccess.outcome = "PermissionError"

\* C5: validate_token accepts a TokenState exactly when it has an expiry
\* strictly later than now and a non-empty access token.
C5_ValidateTokenIsUsable ==
    lastAccess.kind = "access" =>
        /\ lastAccess.validBefore <=> Usable(lastAccess.before, lastAccess.at)
        /\ lastAccess.validAfter <=> Usable(lastAccess.after, lastAccess.at)

\* a token whose expiry is now, its access token non-empty, is turned down
C5_Witness ==
    /\ lastAccess.kind = "access"
    /\ "expiration_time" \in DOMAIN lastAccess.before
    /\ lastAccess.before.expiration_time = lastAccess.at
    /\ "access_token" \in DOMAIN lastAccess.before
    /\ lastAccess.before.access_token = "tokA"
    /\ ~lastAccess.validBefore

Printed(line) == \E i \in DOMAIN output : output[i] = line

\* the calls main() makes after it has picked the account (n26.py:454)
CallsAfterAccounts ==
    {"ynab.get_payees", "ynab.get_categories", "ynab.get_account_transations",
     "n26.get_available_categories", "n26.get_transactions",
     "ynab.create_transactions"}

\* C6 as stated: an account id (or budget id) that is not listed has the
\* options printed and the run carried on to the later steps, not aborted.
C6_MismatchDoesNotAbort ==
    (Printed(BudgetError) \/ Printed(AccountError)) => outcome # "IndexError"

\* C6, amended: a budget id that is not listed has the options printed and
\* the run carried on (the accounts are requested next, for that id); an
\* account id that is not listed has the options printed and then ends the
\* run with an IndexError at the selection of the account, before any later
\* call; the run gets past that selection only with a listed account id.
C6_OnlyBudgetMismatchContinues ==
    /\ Printed(BudgetError) =>
         /\ ynab_budget_id \notin ynab_budgets
         /\ pc = "get_accounts" \/ calls["ynab.get_accounts"] = 1
    /\ (status_of["ynab.get_budgets"] = 200 /\ ynab_budget_id \notin ynab_budgets)
          => Printed(BudgetError)
    /\ Printed(AccountError) =>
         /\ ynab_account_id \notin ynab_accounts
         /\ pc = "done"
         /\ outcome = "IndexError"
         /\ \A c \in CallsAfterAccounts : calls[c] = 0
    /\ (status_of["ynab.get_accounts"] = 200 /\ ynab_account_id \notin ynab_accounts)
          => Printed(AccountError)
    /\ (pc = "get_payees" \/ \E c \in CallsAfterAccounts : calls[c] > 0) =>
         /\ ynab_account_id \in ynab_accounts
         /\ ynab_account = ynab_account_id

\* both ids unlisted: both option lists printed, the run over at the selection
C6_Witness ==
    /\ output = <<BudgetError, AccountError>>
    /\ ynab_accounts # {}
    /\ outcome = "IndexError"

\* C7: create_transactions is called at most once in a run and only after
\* the user said yes; a no ends the run with no call, nothing created and
\* the line "No transactions were created."; after a yes the count reported
\* is the number of ids the service returned.
C7_CreateOnlyOnConfirmation ==
    /\ calls["ynab.create_transactions"] <= 1
    /\ Len(submitted) = calls["ynab.create_transactions"]
    /\ calls["ynab.create_transactions"] = 1 => answer = "y"
    /\ answer = "n" =>
         /\ pc = "done"
         /\ outcome = "declined"
         /\ calls["ynab.create_transactions"] = 0
         /\ ynab_created = {}
         /\ reported = NotReported
         /\ output[Len(output)] = NothingCreated
         /\ ~Printed(Created)
    /\ outcome = "created" =>
         /\ answer = "y"
         /\ reported = Cardinality(ynab_created)
         /\ output[Len(output)] = Created
         /\ ~Printed(NothingCreated)
    /\ Printed(Created) => outcome = "created"

\* the service created fewer transactions than were submitted
C7_Witness ==
    /\ outcome = "created"
    /\ Len(submitted) = 1
    /\ reported < Len(submitted[1])
    /\ reported > 0

CallOrder ==
    <<"n26.get_info", "n26.get_account", "ynab.get_budgets", "ynab.get_accounts",
      "ynab.get_payees", "ynab.get_categories", "ynab.get_account_transations",
      "n26.get_available_categories", "n26.get_transactions",
      "ynab.create_transactions">>

\* C9: in a run each external call is issued at most once and in order, and
\* a call answered with an error status ends the run: no later call is
\* issued, create_transactions in particular.
C9_FaultAbortsTheRun ==
    /\ \A c \in Calls : calls[c] <= 1
    /\ \A i, j \in DOMAIN CallOrder :
         (i < j /\ calls[CallOrder[j]] = 1) =>
             /\ calls[CallOrder[i]] = 1
             /\ status_of[CallOrder[i]] = 200
    /\ \A i \in DOMAIN CallOrder :
         (status_of[CallOrder[i]] # 0 /\ status_of[CallOrder[i]] # 200) =>
             /\ pc = "done"
             /\ outcome = "HTTPError"
             /\ \A j \in DOMAIN CallOrder : i < j => calls[CallOrder[j]] = 0
    /\ outcome \in {"HTTPError", "PermissionError", "KeyError", "IndexError"}
          => pc = "done"

\* the bank's transaction list answered with 500: the run is over, nothing
\* was submitted
C9_Witness ==
    /\ status_of["n26.get_transactions"] = 500
    /\ calls["ynab.create_transactions"] = 0
    /\ pc = "done"

\* the budget category ids the three lookups lead to from transaction
Resolved ==
    IF "category" \notin DOMAIN transaction THEN {}
    ELSE { cid \in BudgetCategoryIds :
             \E name \in DOMAIN categories_ :
                /\ transaction.category \in DOMAIN n26_categories
                /\ n26_categories[transaction.category] = name
                /\ categories_[name] \in DOMAIN ynab_categories
                /\ ynab_categories[categories_[name]] = cid }

\* C10: the normalizer sets category_id to the budget category the three
\* lookups lead to and approved to true when each of them finds its key, and
\* no category and approved = false otherwise (no category on the
\* transaction, or a key not found); approved is true exactly when a
\* category_id is set.
C10_CategoryChain ==
    converted # <<>> =>
        /\ Resolved # {} =>
             /\ converted[1].category_id \in Resolved
             /\ converted[1].approved
        /\ Resolved = {} =>
             /\ converted[1].category_id = None
             /\ ~converted[1].approved
        /\ Cardinality(Resolved) <= 1
        /\ converted[1].approved <=> converted[1].category_id # None

\* bank category 100 is Groceries, mapped to Food, which is cat-1
C10_Witness ==
    /\ converted # <<>>
    /\ "category" \in DOMAIN transaction
    /\ transaction.category = "100"
    /\ n26_categories = [c \in {"100"} |-> "Groceries"]
    /\ categories_ = [n \in {"Groceries"} |-> "Food"]
    /\ ynab_categories = [n \in {"Food"} |-> "cat-1"]
    /\ converted[1].category_id = "cat-1"
    /\ converted[1].approved

\* the amount columns that hold a transaction
NonBlank(records) == LET filled(r) == strip(r.amount) # <<>> IN SelectSeq(records, filled)

RecordsRead ==
    IF reader = "dkb" THEN dkb_records(rows) ELSE ing_records(rows)

Magnitude(d) == [coeff |-> d.coeff, scale |-> d.scale]

\* C8: of the rows of an export whose amounts are well-formed, those with a
\* blank amount are left out without an error, and each other row yields one
\* record with exactly one of Outflow (amount negative) and Inflow
\* (otherwise), holding the absolute value of the amount.
C8_OneFlowPerFilledRow ==
    ( /\ read_result.status # "unread"
      /\ \A i \in DOMAIN NonBlank(RecordsRead) :
            ~Decimal(amount_text(NonBlank(RecordsRead)[i].amount)).invalid ) =>
        /\ read_result.status = "ok"
        /\ Len(read_result.transactions) = Len(NonBlank(RecordsRead))
        /\ \A i \in DOMAIN read_result.transactions :
             LET t == read_result.transactions[i]
                 amount == Decimal(amount_text(NonBlank(RecordsRead)[i].amount))
             IN /\ ("Outflow" \in DOMAIN t) # ("Inflow" \in DOMAIN t)
                /\ "Outflow" \in DOMAIN t <=> IsNegative(amount)
                /\ "Outflow" \in DOMAIN t =>
                      /\ Magnitude(t.Outflow) = Magnitude(amount)
                      /\ ~t.Outflow.neg
                /\ "Inflow" \in DOMAIN t => t.Inflow = amount

\* the parameters of the call whose value is none of the falsy ones
Falsy == { PyNone, PyStr(<<>>), PyInt(0), PyBool(FALSE) }
Emitted == { i \in DOMAIN params.items : params.items[i].v \notin Falsy }

\* the emitted parameter with exactly r - 1 emitted keys below its own
EmittedAt(r) ==
    CHOOSE i \in Emitted :
        Cardinality({ j \in Emitted : str_lt(params.items[j].k, params.items[i].k) }) = r - 1

ExpectedQuery ==
    Flatten([ r \in 1..Cardinality(Emitted) |->
                (IF r = 1 THEN <<"?">> ELSE <<"&">>)
                \o params.items[EmittedAt(r)].k \o <<"=">>
                \o format(params.items[EmittedAt(r)].v) ])

Reordered(pi) ==
    [is_none |-> params.is_none,
     items |-> [ i \in DOMAIN params.items |-> params.items[pi[i]] ]]

\* C11: the url that create_request_url returns is the given url followed by
\* the parameters with a non-falsy value (not None, "", 0 or False) in
\* ascending key order, "?" before the first of them and "&" before each
\* later one, hence the given url itself when there is none; and every other
\* insertion order of the same parameters gives the same url.
C11_QueryIsSortedAndSkipsFalsy ==
    request_url # <<>> =>
        /\ request_url[1] = url \o ExpectedQuery
        /\ Emitted = {} => request_url[1] = url
        /\ \A pi \in Permutations(DOMAIN params.items) :
               create_request_url(url, Reordered(pi)) = request_url[1]

\* a call whose smallest key is omitted for a falsy value, whose two other
\* parameters were inserted in descending key order, and both were emitted
C11_Witness ==
    /\ request_url # <<>>
    /\ Len(params.items) = 3
    /\ Cardinality(Emitted) = 2
    /\ \E i \in DOMAIN params.items :
           /\ i \notin Emitted
           /\ \A j \in Emitted : str_lt(params.items[i].k, params.items[j].k)
    /\ \E i, j \in Emitted : i < j /\ str_lt(params.items[j].k, params.items[i].k)
    /\ \E n \in DOMAIN request_url[1] : request_url[1][n] = "&"

====
